---- MODULE Spec2Model ----
(***************************************************************************)
(* Verification model of the DataDive25 dashboards.                        *)
(*                                                                         *)
(* Each program of the repository is a separate process with its own       *)
(* state, so each gets its own specification over its own variables; the   *)
(* variables of the other programs stay at their initial value.            *)
(*                                                                         *)
(*   SpecGen      load_data.py   create_sample_digital_jobs_data           *)
(*   SpecView     load_data.py   the rising_lagging_countries view         *)
(*   SpecDash     app.py         main: sidebar filters and the five views  *)
(*   SpecForecast app.py         forecast_trends                           *)
(*   SpecAI       load_ai_users_data.py  load_ai_users_data                *)
(*   SpecQA       gemini_qa.py   GeminiQA.answer_question                  *)
(*   SpecWeb      skills_gap_navigator/app.py  the four JSON endpoints     *)
(*   SpecRisk     data_integration.py  create_risk_target                  *)
(*   SpecVuln     ai_impact_analysis.py  calculate_ai_vulnerability        *)
(*   SpecFilter   filter_recent_records.py                                 *)
(*   SpecMcp      mcp_server/server.py  list_tools and call_tool           *)
(*   SpecDb       app.py         check_database_exists and main's check    *)
(*                                                                         *)
(* Real numbers are exact: a fixed-point integer where the code only adds  *)
(* and multiplies, a fraction <<n, d>> with d > 0 where it divides.        *)
(***************************************************************************)
EXTENDS Integers, Sequences, FiniteSets, TLC

VARIABLES
    records,                  \* create_sample_digital_jobs_data: the list `records`
    gen_loop,                 \* its loop position and the locals demand, supply, industry_multiplier
    digital_jobs,             \* the digital_jobs table the views read
    rising_lagging_countries, \* the rows of the view
    selected_country_codes,   \* sidebar multiselect of main
    dash,                     \* the other widgets of main: view, industries, skills
    displayed,                \* the data rows the current run of main shows
    df,                       \* forecast_trends: the input frame
    forecast_years,           \* forecast_trends: N
    forecast_data,            \* forecast_trends: the returned frame, once it returned
    ai_sources,               \* load_ai_users_data: the three loaded sources
    time_period,              \* load_ai_users_data: the argument
    ai_result,                \* load_ai_users_data: returned frame or raised exception
    qa_call,                  \* answer_question: the sources asked for and what the services return
    qa_result,                \* answer_question: the returned dict or the raised exception
    viz_files,                \* visualizations/data: the state of each JSON file
    response,                 \* the last HTTP response of the Flask server
    risk_df,                  \* create_risk_target: the frame df, per country its rows by year
    risk_result,              \* create_risk_target: the returned frame or the raised exception
    vuln_row,                 \* calculate_ai_vulnerability: the row
    vuln_score,               \* calculate_ai_vulnerability: the returned score
    survey_records,           \* filter_recent_records: the frame df
    filter_result,            \* filter_recent_records: the returned frame
    mcp_request,              \* MCP server: the request being handled
    mcp_response,             \* MCP server: what the handler returned or raised
    db_state,                 \* the state of digital_jobs.duckdb when main starts
    app_run                   \* main: how far the run got and what it showed

vars == <<records, gen_loop, digital_jobs, rising_lagging_countries,
          selected_country_codes, dash, displayed, df, forecast_years,
          forecast_data, ai_sources, time_period, ai_result, qa_call,
          qa_result, viz_files, response, risk_df, risk_result, vuln_row,
          vuln_score, survey_records, filter_result, mcp_request,
          mcp_response, db_state, app_run>>

genVars == <<records, gen_loop>>
viewVars == <<digital_jobs, rising_lagging_countries>>
dashVars == <<selected_country_codes, dash, displayed>>
forecastVars == <<df, forecast_years, forecast_data>>
aiVars == <<ai_sources, time_period, ai_result>>
qaVars == <<qa_call, qa_result>>
webVars == <<viz_files, response>>
riskVars == <<risk_df, risk_result>>
vulnVars == <<vuln_row, vuln_score>>
filterVars == <<survey_records, filter_result>>
mcpVars == <<mcp_request, mcp_response>>
dbVars == <<db_state, app_run>>
dashboardVars == <<genVars, viewVars, dashVars, forecastVars, aiVars, qaVars, webVars>>
scriptVars == <<riskVars, vulnVars, filterVars, mcpVars, dbVars>>

NotStarted == [stage |-> "not started"]

\* A program that is not running: its variables hold no data.
GenIdle == records = <<>> /\ gen_loop = NotStarted
ViewIdle == digital_jobs = {} /\ rising_lagging_countries = {}
DashIdle == selected_country_codes = {} /\ dash = NotStarted /\ displayed = {}
ForecastIdle == df = {} /\ forecast_years = 0 /\ forecast_data = NotStarted
AIIdle == ai_sources = NotStarted /\ time_period = "" /\ ai_result = NotStarted
QAIdle == qa_call = NotStarted /\ qa_result = NotStarted
WebIdle == viz_files = NotStarted /\ response = NotStarted
RiskIdle == risk_df = NotStarted /\ risk_result = NotStarted
VulnIdle == vuln_row = NotStarted /\ vuln_score = NotStarted
FilterIdle == survey_records = {} /\ filter_result = NotStarted
McpIdle == mcp_request = NotStarted /\ mcp_response = NotStarted
DbIdle == db_state = NotStarted /\ app_run = NotStarted
DashboardsIdle ==
    GenIdle /\ ViewIdle /\ DashIdle /\ ForecastIdle /\ AIIdle /\ QAIdle /\ WebIdle
ScriptsIdle == RiskIdle /\ VulnIdle /\ FilterIdle /\ McpIdle /\ DbIdle

(***************************************************************************)
(* Exact arithmetic.                                                       *)
(***************************************************************************)
Max(a, b) == IF a >= b THEN a ELSE b

RECURSIVE SumOver(_, _)
\* Sum of f[x] over the finite set S.
SumOver(S, f) ==
    IF S = {} THEN 0
    ELSE LET x == CHOOSE y \in S : TRUE IN f[x] + SumOver(S \ {x}, f)

RECURSIVE Gcd(_, _)
Gcd(a, b) == IF b = 0 THEN a ELSE Gcd(b, a % b)
Abs(a) == IF a < 0 THEN -a ELSE a

\* Fractions <<n, d>>, d > 0, kept in lowest terms.
Frac(n, d) ==
    LET g == Gcd(Abs(n), Abs(d))
    IN  IF d > 0 THEN <<n \div g, d \div g>> ELSE <<(-n) \div g, (-d) \div g>>
FEq(a, b) == a[1] * b[2] = b[1] * a[2]
FLt(a, b) == a[1] * b[2] < b[1] * a[2]
FLe(a, b) == a[1] * b[2] <= b[1] * a[2]
FAdd(a, b) == Frac(a[1] * b[2] + b[1] * a[2], a[2] * b[2])
FSub(a, b) == Frac(a[1] * b[2] - b[1] * a[2], a[2] * b[2])
FMul(a, b) == Frac(a[1] * b[1], a[2] * b[2])
FDiv(a, b) == Frac(a[1] * b[2], a[2] * b[1])

(***************************************************************************)
(* load_data.py: create_sample_digital_jobs_data                           *)
(*                                                                         *)
(* Values are fixed point: a stored integer v stands for v / GenScale.     *)
(* The random draws range over end points and inner points of the          *)
(* intervals the code draws from.                                          *)
(***************************************************************************)
\* years generated per country (the code: 10)
GenYears == 2
FirstYear == 2015

GenCountries == <<"USA", "KEN">>
BoostedCountries == {"USA", "CHN", "IND"}
years == FirstYear .. (FirstYear + GenYears - 1)
industries == <<"Information Technology">>
skill_types == <<"AI/ML Engineering">>

\* demand and supply carry 4 decimals, industry_multiplier 1 (halves),
\* skill_multiplier 1 (tenths).
BaseScale == 10000
GenScale == BaseScale * 2 * 10

BaseDemandDraws == {5}              \* np.random.uniform(5, 50)
BaseSupplyDraws == {3}              \* np.random.uniform(3, 45)
TrendDemandDraws == {25}            \* np.random.uniform(0.05, 0.25), in hundredths
TrendSupplyDraws == {3}             \* np.random.uniform(0.03, 0.15), in hundredths
IndustryMultiplierDraws == {1, 4}   \* np.random.uniform(0.5, 2.0), in halves
SkillMultiplierDraws == {3}         \* np.random.uniform(0.3, 1.8), in tenths
NoiseDraws == {-5, 0, 5}            \* np.random.normal(0, 5)

\* base * (1 + trend_factor * u), trend_factor = (year - 2015) / 10, then the
\* per-country factor (1.5 for demand, 1.3 for supply).
TrendValue(base, year, u, country, boost10) ==
    LET v == base * (1000 + (year - FirstYear) * u) * (BaseScale \div 1000)
    IN  IF country \in BoostedCountries THEN (v * boost10) \div 10 ELSE v

\* The dict appended to records.
GapNoNoise(demand, supply, im, sm) == (demand * im * sm) - (supply * im * sm)

SampleRecord(country, year, industry, skill, demand, supply, im, sm, nd, ns) ==
    [country_code |-> country,
     year |-> year,
     industry |-> industry,
     skill_type |-> skill,
     demand_index |-> Max(0, demand * im * sm + nd * GenScale),
     supply_index |-> Max(0, supply * im * sm + ns * GenScale),
     gap |-> GapNoNoise(demand, supply, im, sm)]

GenInit ==
    /\ records = <<>>
    /\ gen_loop = [stage |-> "year", c |-> 1, year |-> FirstYear, i |-> 1, s |-> 1,
                   demand |-> 0, supply |-> 0, industry_multiplier |-> 0]

\* Head of `for year in years`: draw demand and supply.
DrawBase ==
    /\ gen_loop.stage = "year"
    /\ \E bd \in BaseDemandDraws, bs \in BaseSupplyDraws,
          ud \in TrendDemandDraws, us \in TrendSupplyDraws :
            gen_loop' = [gen_loop EXCEPT
                !.stage = "industry",
                !.i = 1,
                !.demand = TrendValue(bd, gen_loop.year, ud, GenCountries[gen_loop.c], 15),
                !.supply = TrendValue(bs, gen_loop.year, us, GenCountries[gen_loop.c], 13)]
    /\ UNCHANGED records

\* Head of `for industry in industries`: draw industry_multiplier.
DrawIndustry ==
    /\ gen_loop.stage = "industry"
    /\ \E im \in IndustryMultiplierDraws :
            gen_loop' = [gen_loop EXCEPT
                !.stage = "skill", !.s = 1, !.industry_multiplier = im]
    /\ UNCHANGED records

\* The position after one pass of `for skill in skill_types`.
NextPosition(g) ==
    IF g.s < Len(skill_types) THEN [g EXCEPT !.s = g.s + 1]
    ELSE IF g.i < Len(industries) THEN [g EXCEPT !.stage = "industry", !.i = g.i + 1]
    ELSE IF g.year < FirstYear + GenYears - 1
        THEN [g EXCEPT !.stage = "year", !.year = g.year + 1]
    ELSE IF g.c < Len(GenCountries)
        THEN [g EXCEPT !.stage = "year", !.c = g.c + 1, !.year = FirstYear]
    ELSE [g EXCEPT !.stage = "done"]

\* Body of `for skill in skill_types`: draw skill_multiplier and the two
\* noises, append the record.
AppendRecord ==
    /\ gen_loop.stage = "skill"
    /\ \E sm \in SkillMultiplierDraws, nd \in NoiseDraws, ns \in NoiseDraws :
            records' = Append(records,
                SampleRecord(GenCountries[gen_loop.c], gen_loop.year,
                             industries[gen_loop.i], skill_types[gen_loop.s],
                             gen_loop.demand, gen_loop.supply,
                             gen_loop.industry_multiplier, sm, nd, ns))
    /\ gen_loop' = NextPosition(gen_loop)

InitGen ==
    /\ GenInit /\ ViewIdle /\ DashIdle /\ ForecastIdle /\ AIIdle /\ QAIdle /\ WebIdle /\ ScriptsIdle

NextGen ==
    \/ DrawBase /\ UNCHANGED <<viewVars, dashVars, forecastVars, aiVars, qaVars, webVars, scriptVars>>
    \/ DrawIndustry /\ UNCHANGED <<viewVars, dashVars, forecastVars, aiVars, qaVars, webVars, scriptVars>>
    \/ AppendRecord /\ UNCHANGED <<viewVars, dashVars, forecastVars, aiVars, qaVars, webVars, scriptVars>>

SpecGen == InitGen /\ [][NextGen]_vars

\* C1: every record produced for digital_jobs stores gap = demand_index -
\* supply_index, whatever the noise and the multipliers were.
C1_GapIsDemandMinusSupply ==
    \A k \in 1..Len(records) :
        records[k].gap = records[k].demand_index - records[k].supply_index

(***************************************************************************)
(* load_data.py: create_database, the rising_lagging_countries view        *)
(*                                                                         *)
(* SQL NULL is Null; a SQL truth value is "T", "F" or "N" (unknown).       *)
(* Averages and growth figures are fractions.                              *)
(***************************************************************************)
\* years before 2020 held by the table (the code: 5)
HistYears == 2
\* years from 2020 on held by the table (the code: 5)
RecentYears == 2
SplitYear == 2020

ViewCountries == {"USA", "KEN"}
ViewYears == (SplitYear - HistYears) .. (SplitYear + RecentYears - 1)

\* <<demand_index, supply_index>> of a country in one year.  Both are
\* max(0, ...) in the generator, so never negative.
IndexPairs == {<<20, 20>>, <<26, 24>>, <<24, 24>>, <<0, 20>>}
SteadyPairs == {<<20, 20>>, <<26, 24>>}

JobsRow(c, y, pair) ==
    [country_code |-> c, year |-> y, demand_index |-> pair[1], supply_index |-> pair[2]]

\* Every table the generator can leave: one row per country and year.  USA
\* takes every pair in every year; KEN is steady before 2020.
Tables ==
    LET recent == {y \in ViewYears : y >= SplitYear}
    IN  {{JobsRow("USA", y, u[y]) : y \in ViewYears}
           \cup {JobsRow("KEN", y, <<20, 20>>) : y \in ViewYears \ recent}
           \cup {JobsRow("KEN", y, k[y]) : y \in recent}
          : u \in [ViewYears -> IndexPairs], k \in [recent -> SteadyPairs]}

Null == <<>>

SqlAnd(a, b) ==
    IF a = "F" \/ b = "F" THEN "F" ELSE IF a = "T" /\ b = "T" THEN "T" ELSE "N"
SqlOr(a, b) ==
    IF a = "T" \/ b = "T" THEN "T" ELSE IF a = "F" /\ b = "F" THEN "F" ELSE "N"
SqlGt(a, b) == IF a = Null \/ b = Null THEN "N" ELSE IF FLt(b, a) THEN "T" ELSE "F"
SqlLt(a, b) == IF a = Null \/ b = Null THEN "N" ELSE IF FLt(a, b) THEN "T" ELSE "F"
SqlSub(a, b) == IF a = Null \/ b = Null THEN Null ELSE FSub(a, b)
SqlMul(a, b) == IF a = Null \/ b = Null THEN Null ELSE FMul(a, b)
\* a / NULLIF(b, 0)
SqlDivNullIf0(a, b) == IF a = Null \/ b = Null \/ b[1] = 0 THEN Null ELSE FDiv(a, b)

\* AVG(col) over rows: NULL over no row.
SqlAvg(rows, col) ==
    IF rows = {} THEN Null
    ELSE Frac(SumOver(rows, [r \in rows |-> r[col]]), Cardinality(rows))

IsRecentStrict(year) == year > SplitYear
\* CASE WHEN year >= 2020 / CASE WHEN year < 2020
IsRecent(year) == year >= SplitYear
IsHistorical(year) == year < SplitYear

\* The CTE recent_data, for one group.
RecentData(table, c) ==
    LET rows == {r \in table : r.country_code = c /\ r.year >= FirstYear}
    IN  [country_code |-> c,
         recent_demand |-> SqlAvg({r \in rows : IsRecent(r.year)}, "demand_index"),
         historical_demand |-> SqlAvg({r \in rows : IsHistorical(r.year)}, "demand_index"),
         recent_supply |-> SqlAvg({r \in rows : IsRecent(r.year)}, "supply_index"),
         historical_supply |-> SqlAvg({r \in rows : IsHistorical(r.year)}, "supply_index")]

\* (recent - historical) / NULLIF(historical, 0)
Growth(recent, historical) == SqlDivNullIf0(SqlSub(recent, historical), historical)

SqlGe(a, b) == IF a = Null \/ b = Null THEN "N" ELSE IF FLt(a, b) THEN "F" ELSE "T"

IsRisingInclusive(dg, sg) == SqlAnd(SqlGe(dg, <<2, 10>>), SqlGe(sg, <<15, 100>>))
\* WHEN growth(demand) > 0.2 AND growth(supply) > 0.15
IsRising(dg, sg) == SqlAnd(SqlGt(dg, <<2, 10>>), SqlGt(sg, <<15, 100>>))
\* WHEN growth(demand) < 0.1 OR growth(supply) < 0.05
IsLagging(dg, sg) == SqlOr(SqlLt(dg, <<1, 10>>), SqlLt(sg, <<5, 100>>))

\* The CASE expression: the first WHEN that is true decides.
TrendStatus(dg, sg) ==
    IF IsRising(dg, sg) = "T" THEN "Rising"
    ELSE IF IsLagging(dg, sg) = "T" THEN "Lagging"
    ELSE "Moderate"

\* The SELECT of the view over the CTE.
ViewRow(d) ==
    LET dg == Growth(d.recent_demand, d.historical_demand)
        sg == Growth(d.recent_supply, d.historical_supply)
    IN  [country_code |-> d.country_code,
         recent_demand |-> d.recent_demand,
         historical_demand |-> d.historical_demand,
         recent_supply |-> d.recent_supply,
         historical_supply |-> d.historical_supply,
         demand_growth_pct |-> SqlMul(dg, <<100, 1>>),
         supply_growth_pct |-> SqlMul(sg, <<100, 1>>),
         trend_status |-> TrendStatus(dg, sg)]

RisingLaggingView(table) ==
    LET groups == {r.country_code : r \in {x \in table : x.year >= FirstYear}}
        cte == {RecentData(table, c) : c \in groups}
    IN  {ViewRow(d) : d \in {x \in cte : x.historical_demand /= Null
                                          /\ x.historical_supply /= Null}}

ViewInit ==
    /\ digital_jobs \in Tables
    /\ rising_lagging_countries = {}

\* create_database has filled digital_jobs; a query reads the view.
ReadRisingLagging ==
    /\ rising_lagging_countries = {}
    /\ rising_lagging_countries' = RisingLaggingView(digital_jobs)
    /\ UNCHANGED digital_jobs

InitView ==
    /\ ViewInit /\ GenIdle /\ DashIdle /\ ForecastIdle /\ AIIdle /\ QAIdle /\ WebIdle /\ ScriptsIdle

NextView ==
    ReadRisingLagging /\ UNCHANGED <<genVars, dashVars, forecastVars, aiVars, qaVars, webVars, scriptVars>>

SpecView == InitView /\ [][NextView]_vars

Above(x, pct) == x /= Null /\ FLt(<<pct, 1>>, x)
Below(x, pct) == x /= Null /\ FLt(x, <<pct, 1>>)

\* C2: every listed country has exactly one row, whose trend_status is
\* Rising exactly when demand growth is above 20% and supply growth above 15%,
\* Lagging exactly when it is not Rising and demand growth is below 10% or
\* supply growth below 5%, and Moderate in every other case.
C2_TrendStatusByThresholds ==
    /\ \A r1, r2 \in rising_lagging_countries :
          r1.country_code = r2.country_code => r1 = r2
    /\ \A r \in rising_lagging_countries :
          LET rising == Above(r.demand_growth_pct, 20) /\ Above(r.supply_growth_pct, 15)
              lagging == ~rising /\ (Below(r.demand_growth_pct, 10)
                                       \/ Below(r.supply_growth_pct, 5))
          IN  /\ r.trend_status \in {"Rising", "Lagging", "Moderate"}
              /\ (r.trend_status = "Rising") <=> rising
              /\ (r.trend_status = "Lagging") <=> lagging
              /\ (r.trend_status = "Moderate") <=> (~rising /\ ~lagging)

\* Witness of C2: the view lists a Rising country next to a country that is
\* Moderate because its demand growth is NULL.
C2_Witness ==
    /\ \E r \in rising_lagging_countries : r.trend_status = "Rising"
    /\ \E r \in rising_lagging_countries :
          r.trend_status = "Moderate" /\ r.demand_growth_pct = Null

\* The yearly value of a column for a country: the average of its rows.
YearValue(table, c, y, col) ==
    SqlAvg({r \in table : r.country_code = c /\ r.year = y}, col)

\* Percentage change of a column of country c from year y to year y + 1.
YearOverYearPct(table, c, y, col) ==
    SqlMul(Growth(YearValue(table, c, y + 1, col), YearValue(table, c, y, col)), <<100, 1>>)

SamePct(a, b) == IF a = Null \/ b = Null THEN a = b ELSE FEq(a, b)

\* C3 as claimed: the growth figures of a listed country are the percentage
\* change of its index from one year to the following year.
C3_GrowthIsYearOverYear ==
    \A r \in rising_lagging_countries :
        \E y \in ViewYears :
            /\ y + 1 \in ViewYears
            /\ SamePct(r.demand_growth_pct,
                       YearOverYearPct(digital_jobs, r.country_code, y, "demand_index"))
            /\ SamePct(r.supply_growth_pct,
                       YearOverYearPct(digital_jobs, r.country_code, y, "supply_index"))

\* Mean of a column of country c over the years lo..hi, as <<sum, count>>.
MeanOver(table, c, lo, hi, col) ==
    LET ys == {y \in lo..hi : \E r \in table : r.country_code = c /\ r.year = y}
        tot == SumOver(ys, [y \in ys |->
                   SumOver({r \in table : r.country_code = c /\ r.year = y},
                           [r \in table |-> r[col]])])
        cnt == Cardinality({r \in table : r.country_code = c /\ r.year \in ys})
    IN  <<tot, cnt>>

\* 100 * (recent mean - historical mean) / historical mean, NULL when the
\* historical mean is 0.
PeriodPct(table, c, col) ==
    LET h == MeanOver(table, c, FirstYear, 2019, col)
        n == MeanOver(table, c, 2020, SplitYear + RecentYears, col)
    IN  IF h[1] = 0 \/ n[2] = 0 THEN Null
        ELSE Frac(100 * (n[1] * h[2] - h[1] * n[2]), n[2] * h[1])

\* C3 as amended: the growth figures compare the period from 2020 on with
\* the period 2015..2019: each is the percentage change from the country's
\* average index over 2015..2019 to its average index over the years >= 2020.
C3_GrowthIsRecentOverHistorical ==
    \A r \in rising_lagging_countries :
        /\ SamePct(r.demand_growth_pct, PeriodPct(digital_jobs, r.country_code, "demand_index"))
        /\ SamePct(r.supply_growth_pct, PeriodPct(digital_jobs, r.country_code, "supply_index"))

\* Witness of C3: a listed country whose demand grew between the periods.
C3_Witness ==
    \E r \in rising_lagging_countries :
        /\ r.demand_growth_pct /= Null
        /\ FLt(<<0, 1>>, r.demand_growth_pct)
        /\ r.recent_demand /= r.historical_demand

(***************************************************************************)
(* app.py: main, the sidebar filters and the five analysis views           *)
(*                                                                         *)
(* Streamlit runs main again after every widget change, so every action    *)
(* sets one widget and renders.  `displayed` holds the data rows of the    *)
(* run; each row carries `countries`, the countries whose records it       *)
(* shows or aggregates.                                                    *)
(***************************************************************************)
DashCountries == {"USA", "KEN", "IND"}
DashYears == 2019 .. 2020
DashIndustries == {"Information Technology", "Healthcare"}
DashSkills == {"Data Science", "IT Support"}
view_options == {"Country Trends", "Industry Trends", "Skill Trends",
                 "Rising vs Lagging", "AI Users Map"}

\* The populated digital_jobs table the dashboard reads.
DashTable ==
    {[country_code |-> c, year |-> y, industry |-> i, skill_type |-> k,
      demand_index |-> IF y >= SplitYear /\ c = "USA" THEN 26 ELSE 20,
      supply_index |-> IF y >= SplitYear /\ c = "USA" THEN 24 ELSE 20,
      gap |-> IF y >= SplitYear /\ c = "USA" THEN 2 ELSE 0]
        : c \in DashCountries, y \in DashYears, i \in DashIndustries, k \in DashSkills}

\* The frame load_ai_users_data returns: countries of the two AI sources,
\* which need not be countries of digital_jobs.
DashAIUsers ==
    {[iso3 |-> "USA", total_ai_users |-> 9], [iso3 |-> "IND", total_ai_users |-> 4],
     [iso3 |-> "FRA", total_ai_users |-> 3]}

YearRanges == {yr \in DashYears \X DashYears : yr[1] <= yr[2]}

InYearRange(r, year_range) == r.year >= year_range[1] /\ r.year <= year_range[2]

\* The columns every aggregate query computes over its group.
Aggregates(rows) ==
    [avg_demand |-> SqlAvg(rows, "demand_index"),
     avg_supply |-> SqlAvg(rows, "supply_index"),
     avg_gap |-> SqlAvg(rows, "gap"),
     countries |-> {r.country_code : r \in rows}]

\* `if selected_countries:` adds the IN clause: an empty list adds none.
CountryClause(r, selected_countries) ==
    selected_countries /= {} => r.country_code \in selected_countries

get_country_trends(selected_countries, year_range) ==
    LET rows == {r \in DashTable : CountryClause(r, selected_countries)
                                    /\ InYearRange(r, year_range)}
    IN  {[kind |-> "country_trends", key |-> <<c, y>>,
          data |-> Aggregates({r \in rows : r.country_code = c /\ r.year = y})]
            : <<c, y>> \in {<<r.country_code, r.year>> : r \in rows}}

get_industry_trends(selected_industries, year_range, selected_countries) ==
    LET rows == {r \in DashTable :
                    /\ CountryClause(r, selected_countries)
                    /\ (selected_industries /= {} => r.industry \in selected_industries)
                    /\ InYearRange(r, year_range)}
    IN  {[kind |-> "industry_trends", key |-> <<i, y>>,
          data |-> Aggregates({r \in rows : r.industry = i /\ r.year = y})]
            : <<i, y>> \in {<<r.industry, r.year>> : r \in rows}}

get_industry_trends_by_country(selected_industries, year_range, selected_countries) ==
    LET rows == {r \in DashTable :
                    /\ CountryClause(r, selected_countries)
                    /\ (selected_industries /= {} => r.industry \in selected_industries)
                    /\ InYearRange(r, year_range)}
    IN  {[kind |-> "industry_by_country", key |-> <<c, i, y>>,
          data |-> Aggregates({r \in rows : r.country_code = c /\ r.industry = i
                                             /\ r.year = y})]
            : <<c, i, y>> \in {<<r.country_code, r.industry, r.year>> : r \in rows}}

get_skill_trends(selected_skills, year_range, selected_countries) ==
    LET rows == {r \in DashTable :
                    /\ CountryClause(r, selected_countries)
                    /\ (selected_skills /= {} => r.skill_type \in selected_skills)
                    /\ InYearRange(r, year_range)}
    IN  {[kind |-> "skill_trends", key |-> <<k, y>>,
          data |-> Aggregates({r \in rows : r.skill_type = k /\ r.year = y})]
            : <<k, y>> \in {<<r.skill_type, r.year>> : r \in rows}}

get_skill_trends_by_country(selected_skills, year_range, selected_countries) ==
    LET rows == {r \in DashTable :
                    /\ CountryClause(r, selected_countries)
                    /\ (selected_skills /= {} => r.skill_type \in selected_skills)
                    /\ InYearRange(r, year_range)}
    IN  {[kind |-> "skill_by_country", key |-> <<c, k, y>>,
          data |-> Aggregates({r \in rows : r.country_code = c /\ r.skill_type = k
                                             /\ r.year = y})]
            : <<c, k, y>> \in {<<r.country_code, r.skill_type, r.year>> : r \in rows}}

create_country_map_data(selected_countries, year_range) ==
    LET rows == {r \in DashTable : CountryClause(r, selected_countries)
                                    /\ InYearRange(r, year_range)}
    IN  {[kind |-> "country_map", key |-> <<c>>,
          data |-> Aggregates({r \in rows : r.country_code = c})]
            : c \in {r.country_code : r \in rows}}

get_rising_lagging_analysis(selected_countries) ==
    {[kind |-> "rising_lagging", key |-> <<v.country_code, v.trend_status>>,
      data |-> [countries |-> {v.country_code}]]
        : v \in {x \in RisingLaggingView(DashTable) : CountryClause(x, selected_countries)}}

\* The AI Users Map branch: the frame is shown as loaded.
ai_users_view ==
    {[kind |-> "ai_users", key |-> <<a.iso3, a.total_ai_users>>,
      data |-> [countries |-> {a.iso3}]] : a \in DashAIUsers}

\* The data rows one run of main shows, after the database check passed.
Render(selected, d) ==
    CASE d.view = "Country Trends" ->
            IF selected /= {}
            THEN LET country_df == get_country_trends(selected, d.year_range)
                 IN  IF country_df /= {}
                     THEN country_df \cup create_country_map_data(selected, d.year_range)
                     ELSE {}
            ELSE {}
      [] d.view = "Industry Trends" ->
            IF d.selected_industries /= {}
            THEN LET industry_df == get_industry_trends(d.selected_industries,
                                                        d.year_range, selected)
                 IN  IF industry_df /= {}
                     THEN industry_df \cup get_industry_trends_by_country(
                              d.selected_industries, d.year_range, selected)
                     ELSE {}
            ELSE {}
      [] d.view = "Skill Trends" ->
            IF d.selected_skills /= {}
            THEN LET skill_df == get_skill_trends(d.selected_skills, d.year_range, selected)
                 IN  IF skill_df /= {}
                     THEN skill_df \cup get_skill_trends_by_country(
                              d.selected_skills, d.year_range, selected)
                     ELSE {}
            ELSE {}
      [] d.view = "Rising vs Lagging" -> get_rising_lagging_analysis(selected)
      [] d.view = "AI Users Map" -> ai_users_view

\* The widgets' defaults: all countries, the whole year range, the first
\* view, the first industries and skills.
DashDefaults ==
    [view |-> "Country Trends",
     year_range |-> <<2019, 2020>>,
     selected_industries |-> DashIndustries,
     selected_skills |-> DashSkills]

DashInit ==
    /\ selected_country_codes = DashCountries
    /\ dash = DashDefaults
    /\ displayed = Render(DashCountries, DashDefaults)

SelectCountries ==
    \E sel \in SUBSET DashCountries :
        /\ sel /= selected_country_codes
        /\ selected_country_codes' = sel
        /\ displayed' = Render(sel, dash)
        /\ UNCHANGED dash

SetYearRange ==
    \E yr \in YearRanges :
        /\ yr /= dash.year_range
        /\ dash' = [dash EXCEPT !.year_range = yr]
        /\ displayed' = Render(selected_country_codes, dash')
        /\ UNCHANGED selected_country_codes

SelectView ==
    \E v \in view_options :
        /\ v /= dash.view
        /\ dash' = [dash EXCEPT !.view = v]
        /\ displayed' = Render(selected_country_codes, dash')
        /\ UNCHANGED selected_country_codes

SelectIndustries ==
    \E inds \in SUBSET DashIndustries :
        /\ dash.view = "Industry Trends"
        /\ inds /= dash.selected_industries
        /\ dash' = [dash EXCEPT !.selected_industries = inds]
        /\ displayed' = Render(selected_country_codes, dash')
        /\ UNCHANGED selected_country_codes

SelectSkills ==
    \E sk \in SUBSET DashSkills :
        /\ dash.view = "Skill Trends"
        /\ sk /= dash.selected_skills
        /\ dash' = [dash EXCEPT !.selected_skills = sk]
        /\ displayed' = Render(selected_country_codes, dash')
        /\ UNCHANGED selected_country_codes

\* "Clear All Filters": session_state.clear() and rerun.
ClearAllFilters ==
    /\ <<selected_country_codes, dash>> /= <<DashCountries, DashDefaults>>
    /\ selected_country_codes' = DashCountries
    /\ dash' = DashDefaults
    /\ displayed' = Render(DashCountries, DashDefaults)

InitDash ==
    /\ DashInit /\ GenIdle /\ ViewIdle /\ ForecastIdle /\ AIIdle /\ QAIdle /\ WebIdle /\ ScriptsIdle

NextDash ==
    \/ SelectCountries /\ UNCHANGED <<genVars, viewVars, forecastVars, aiVars, qaVars, webVars, scriptVars>>
    \/ SetYearRange /\ UNCHANGED <<genVars, viewVars, forecastVars, aiVars, qaVars, webVars, scriptVars>>
    \/ SelectView /\ UNCHANGED <<genVars, viewVars, forecastVars, aiVars, qaVars, webVars, scriptVars>>
    \/ SelectIndustries /\ UNCHANGED <<genVars, viewVars, forecastVars, aiVars, qaVars, webVars, scriptVars>>
    \/ SelectSkills /\ UNCHANGED <<genVars, viewVars, forecastVars, aiVars, qaVars, webVars, scriptVars>>
    \/ ClearAllFilters /\ UNCHANGED <<genVars, viewVars, forecastVars, aiVars, qaVars, webVars, scriptVars>>

SpecDash == InitDash /\ [][NextDash]_vars

\* C4: in every view and for every selection of countries, the empty one
\* included, every displayed data row belongs to selected countries only.
C4_OnlySelectedCountriesShown ==
    \A row \in displayed : row.data.countries \subseteq selected_country_codes

(***************************************************************************)
(* app.py: forecast_trends                                                 *)
(*                                                                         *)
(* df is a frame of rows <<group, year, avg_demand, avg_supply>> as the    *)
(* aggregate queries return it: no NaN, since AVG over a group that has    *)
(* rows is not NULL.  LinearRegression is ordinary least squares, computed *)
(* exactly over fractions, with the years taken relative to max_year.      *)
(***************************************************************************)
\* rows of the input frame
MaxRows == 3
\* forecast_years (the dashboard passes 5)
MaxForecastYears == 2

ForecastGroups == {"Kenya", "India"}
ForecastInputYears == 2020 .. 2022
\* <<avg_demand, avg_supply>>
ForecastValues == {<<0, 30>>, <<10, 5>>, <<40, 0>>}

FrameRows ==
    {[group |-> g, year |-> y, avg_demand |-> v[1], avg_supply |-> v[2]]
        : g \in ForecastGroups, y \in ForecastInputYears, v \in ForecastValues}

RECURSIVE SubsetsUpTo(_, _)
\* The subsets of S with at most k elements.
SubsetsUpTo(S, k) ==
    IF k = 0 THEN {{}}
    ELSE LET smaller == SubsetsUpTo(S, k - 1)
         IN  smaller \cup {t \cup {x} : t \in smaller, x \in S}

\* df[x_col].max()
MaxYear(frame) == CHOOSE y \in {r.year : r \in frame} : \A r \in frame : r.year <= y

\* model.fit(X, y).predict(x): the least-squares line through the points
\* (r.year - origin, r[col]) of rows, at x - origin.  With a single distinct
\* year the line is flat at the mean.
Predict(rows, col, origin, x) ==
    LET n == Cardinality(rows)
        Sx == SumOver(rows, [r \in rows |-> r.year - origin])
        Sy == SumOver(rows, [r \in rows |-> r[col]])
        Sxx == SumOver(rows, [r \in rows |-> (r.year - origin) * (r.year - origin)])
        Sxy == SumOver(rows, [r \in rows |-> (r.year - origin) * r[col]])
        D == n * Sxx - Sx * Sx
        B == n * Sxy - Sx * Sy
    IN  IF D = 0 THEN Frac(Sy, n)
        ELSE Frac(Sy * D - B * Sx + B * n * (x - origin), n * D)

Unclipped(p) == p
\* max(0, pred[i])
NonNegative(p) == IF p[1] < 0 THEN <<0, 1>> ELSE p

FutureYearsOfGroup(frame, group_df, n) ==
    (MaxYear(group_df) + 1) .. (MaxYear(group_df) + n)
\* np.arange(max_year + 1, max_year + forecast_years + 1)
FutureYears(frame, group_df, n) == (MaxYear(frame) + 1) .. (MaxYear(frame) + n)

\* One pass of `for group_value in df[color_col].unique()`.
GroupForecast(frame, g, n) ==
    LET group_df == {r \in frame : r.group = g}
    IN  IF Cardinality(group_df) < 2 THEN {}
        ELSE {[year |-> y,
               group |-> g,
               avg_demand |-> NonNegative(Predict(group_df, "avg_demand", MaxYear(frame), y)),
               avg_supply |-> NonNegative(Predict(group_df, "avg_supply", MaxYear(frame), y)),
               is_forecast |-> TRUE] : y \in FutureYears(frame, group_df, n)}

forecast_trends(frame, n) ==
    UNION {GroupForecast(frame, g, n) : g \in {r.group : r \in frame}}

ForecastInit ==
    /\ df \in SubsetsUpTo(FrameRows, MaxRows) \ {{}}
    /\ forecast_years \in 0 .. MaxForecastYears
    /\ forecast_data = NotStarted

CallForecastTrends ==
    /\ forecast_data = NotStarted
    /\ forecast_data' = [stage |-> "returned", rows |-> forecast_trends(df, forecast_years)]
    /\ UNCHANGED <<df, forecast_years>>

InitForecast ==
    /\ ForecastInit /\ GenIdle /\ ViewIdle /\ DashIdle /\ AIIdle /\ QAIdle /\ WebIdle /\ ScriptsIdle

NextForecast ==
    CallForecastTrends /\ UNCHANGED <<genVars, viewVars, dashVars, aiVars, qaVars, webVars, scriptVars>>

SpecForecast == InitForecast /\ [][NextForecast]_vars

ForecastReturned == forecast_data.stage = "returned"

\* C5: a group with at least two rows gets exactly forecast_years rows, one
\* for each of the years max_year + 1 .. max_year + forecast_years, max_year
\* the latest year of the whole frame, each flagged is_forecast; a group with
\* fewer than two rows gets no row.
C5_ForecastRowsPerGroup ==
    ForecastReturned =>
        /\ \A row \in forecast_data.rows :
              row.is_forecast /\ row.group \in {r.group : r \in df}
        /\ \A g \in {r.group : r \in df} :
              LET hist == {r \in df : r.group = g}
                  out == {row \in forecast_data.rows : row.group = g}
                  latest == CHOOSE y \in {r.year : r \in df} :
                                \A y2 \in {r.year : r \in df} : y2 <= y
              IN  IF Cardinality(hist) >= 2
                  THEN /\ Cardinality(out) = forecast_years
                       /\ {row.year : row \in out} = {latest + k : k \in 1 .. forecast_years}
                  ELSE out = {}

\* Witness of C5: a frame whose groups end in different years, one group
\* forecast and one too short to forecast.
C5_Witness ==
    /\ ForecastReturned
    /\ forecast_years = MaxForecastYears
    /\ \E g1, g2 \in ForecastGroups :
          /\ Cardinality({r \in df : r.group = g1}) >= 2
          /\ Cardinality({r \in df : r.group = g2}) = 1
          /\ \A r \in df : r.group = g1 => r.year < MaxYear(df)
          /\ \E row \in forecast_data.rows : row.group = g1

\* C6: no returned row has a negative avg_demand or avg_supply.
C6_ForecastNonNegative ==
    ForecastReturned =>
        \A row \in forecast_data.rows : row.avg_demand[1] >= 0 /\ row.avg_supply[1] >= 0

\* Witness of C6: a falling trend whose projection is below zero and is
\* reported as 0.
C6_Witness ==
    /\ ForecastReturned
    /\ \E row \in forecast_data.rows :
          /\ row.avg_demand = <<0, 1>>
          /\ Predict({r \in df : r.group = row.group}, "avg_demand",
                     MaxYear(df), row.year)[1] < 0

(***************************************************************************)
(* load_ai_users_data.py: load_ai_users_data                               *)
(*                                                                         *)
(* A frame column is a function from the countries that have a row to the  *)
(* value; NaN is pandas' missing value.  Numbers are fractions; a fraction *)
(* with denominator 0 is the float infinity.                               *)
(***************************************************************************)
\* largest usage_count drawn for a country
MaxClaudeUsers == 1

NaN == <<>>

AICountries == {"USA", "KEN"}

\* The periods the dashboard's radio offers.
DashboardPeriods == {"May 2025", "May 2024"}
TimePeriods == DashboardPeriods \cup {"Nov 2024", "2025"}

\* data/wau_share_by_gdp.csv: rows <<time_period, gdp_per_capita_thousands_usd,
\* median_wau_share_internet_users>>.  The file is not part of the sources; it
\* holds the periods the dashboard offers and possibly more.
WauFiles ==
    {{<<"May 2025", 2, <<10, 100>>>>, <<"May 2025", 10, <<30, 100>>>>,
      <<"May 2024", 2, <<5, 100>>>>, <<"May 2024", 10, <<15, 100>>>>},
     {<<"May 2025", 2, <<10, 100>>>>, <<"May 2025", 10, <<30, 100>>>>,
      <<"May 2024", 2, <<5, 100>>>>, <<"May 2024", 10, <<15, 100>>>>,
      <<"Nov 2024", 2, <<8, 100>>>>}}

\* usage_count of a country in the Anthropic index.
ClaudeValues == {NaN} \cup {<<v, 1>> : v \in 0 .. MaxClaudeUsers}
\* <<pop_adult, internet>> of a country in Findex 2024, group 'all', with
\* internet not missing.
FindexValues == {<<NaN, <<1, 2>>>>, <<<<10, 1>>, <<0, 1>>>>, <<<<10, 1>>, <<1, 2>>>>}
\* gdp_per_working_age_capita, in dollars.
GdpValues == {1000, 5000, 20000}

PartialFunctions(S, V) == UNION {[D -> V] : D \in SUBSET S}

\* KEN is drawn from one value per source, USA from all.
AISourceValues(V, kenValue) ==
    {f \in PartialFunctions(AICountries, V) : "KEN" \in DOMAIN f => f["KEN"] = kenValue}

\* Float arithmetic with NaN.
FloatAdd(a, b) == IF a = NaN \/ b = NaN THEN NaN ELSE FAdd(a, b)
FloatMul(a, b) == IF a = NaN \/ b = NaN THEN NaN ELSE FMul(a, b)
FloatDiv(a, b) ==
    IF a = NaN \/ b = NaN THEN NaN
    ELSE IF b[1] = 0 THEN (IF a[1] = 0 THEN NaN ELSE <<(IF a[1] > 0 THEN 1 ELSE -1), 0>>)
    ELSE FDiv(a, b)
fillna(a, v) == IF a = NaN THEN v ELSE a

\* wau_df[wau_df['time_period'] == time_period].sort_values(gdp), as a
\* sequence of <<gdp, share>>.
RECURSIVE SortedByGdp(_)
SortedByGdp(points) ==
    IF points = {} THEN <<>>
    ELSE LET lo == CHOOSE q \in points : \A q2 \in points : q[1] <= q2[1]
         IN  <<lo>> \o SortedByGdp(points \ {lo})

interpolate_wau_share(gdp_k, wau_df, period) ==
    LET period_data == SortedByGdp({<<w[2], w[3]>> : w \in {x \in wau_df : x[1] = period}})
        n == Len(period_data)
        G(i) == <<period_data[i][1], 1>>
        W(i) == period_data[i][2]
    IN  IF n = 0 THEN <<0, 1>>
        ELSE IF FLe(gdp_k, G(1)) THEN W(1)
        ELSE IF FLe(G(n), gdp_k) THEN W(n)
        ELSE LET i == CHOOSE j \in 1 .. (n - 1) :
                        /\ FLe(G(j), gdp_k) /\ FLe(gdp_k, G(j + 1))
                        /\ \A j2 \in 1 .. (j - 1) :
                              ~(FLe(G(j2), gdp_k) /\ FLe(gdp_k, G(j2 + 1)))
                 t == FDiv(FSub(gdp_k, G(i)), FSub(G(i + 1), G(i)))
             IN  FAdd(W(i), FMul(t, FSub(W(i + 1), W(i))))

\* estimate_chatgpt_users: Findex inner-joined with GDP on iso3.
estimate_chatgpt_users(gdp_df, findex_df, wau_df, period) ==
    [c \in (DOMAIN findex_df) \cap (DOMAIN gdp_df) |->
        LET internet_users == FloatMul(findex_df[c][1], findex_df[c][2])
            wau_share == interpolate_wau_share(Frac(gdp_df[c], 1000), wau_df, period)
        IN  [pop_adult |-> findex_df[c][1],
             internet_users |-> internet_users,
             chatgpt_users |-> FloatMul(internet_users, wau_share)]]

AcceptsEveryPeriod(period, wau_df) == TRUE
\* time_period in wau_df['time_period'].unique().tolist()
PeriodIsValid(period, wau_df) == period \in {w[1] : w \in wau_df}

HasUsersOrNone(total) == total /= NaN /\ total[1] >= 0
\* result['total_ai_users'] > 0
HasUsers(total) == total /= NaN /\ total[1] > 0 /\ total[2] >= 0

\* The outer merge and the columns computed on it.
CombinedRow(c, claude_df, chatgpt_df) ==
    LET claude_users == fillna(IF c \in DOMAIN claude_df THEN claude_df[c] ELSE NaN, <<0, 1>>)
        chatgpt_users == fillna(IF c \in DOMAIN chatgpt_df
                                THEN chatgpt_df[c].chatgpt_users ELSE NaN, <<0, 1>>)
        pop_adult == IF c \in DOMAIN chatgpt_df THEN chatgpt_df[c].pop_adult ELSE NaN
        internet_users == IF c \in DOMAIN chatgpt_df THEN chatgpt_df[c].internet_users ELSE NaN
        total_ai_users == FloatAdd(claude_users, chatgpt_users)
    IN  [iso3 |-> c,
         claude_users |-> claude_users,
         chatgpt_users |-> chatgpt_users,
         total_ai_users |-> total_ai_users,
         pop_adult |-> pop_adult,
         internet_users |-> internet_users,
         ai_users_per_capita |-> fillna(FloatDiv(total_ai_users, pop_adult), <<0, 1>>),
         ai_users_per_internet |-> fillna(FloatDiv(total_ai_users, internet_users), <<0, 1>>)]

load_ai_users_data(src, period) ==
    IF src.failed = "anthropic" \/ src.failed = "findex"
        THEN [stage |-> "raised", exception |-> "RequestException", rows |-> {}]
    ELSE IF src.failed = "wau"
        THEN [stage |-> "raised", exception |-> "FileNotFoundError", rows |-> {}]
    ELSE IF ~PeriodIsValid(period, src.wau)
        THEN [stage |-> "raised", exception |-> "ValueError", rows |-> {}]
    ELSE LET chatgpt_df == estimate_chatgpt_users(src.gdp, src.findex, src.wau, period)
             combined == {CombinedRow(c, src.claude, chatgpt_df)
                            : c \in (DOMAIN src.claude) \cup (DOMAIN chatgpt_df)}
         IN  [stage |-> "returned", exception |-> "",
              rows |-> {r \in combined : HasUsers(r.total_ai_users)}]

AIInit ==
    /\ ai_sources \in [stage : {"loaded"},
                       failed : {"none", "anthropic", "findex", "wau"},
                       claude : AISourceValues(ClaudeValues, <<1, 1>>),
                       findex : AISourceValues(FindexValues, <<<<10, 1>>, <<1, 2>>>>),
                       gdp : AISourceValues(GdpValues, 5000),
                       wau : WauFiles]
    /\ time_period \in TimePeriods
    /\ ai_result = NotStarted

CallLoadAIUsersData ==
    /\ ai_result = NotStarted
    /\ ai_result' = load_ai_users_data(ai_sources, time_period)
    /\ UNCHANGED <<ai_sources, time_period>>

InitAI ==
    /\ AIInit /\ GenIdle /\ ViewIdle /\ DashIdle /\ ForecastIdle /\ QAIdle /\ WebIdle /\ ScriptsIdle

NextAI ==
    CallLoadAIUsersData /\ UNCHANGED <<genVars, viewVars, dashVars, forecastVars, qaVars, webVars, scriptVars>>

SpecAI == InitAI /\ [][NextAI]_vars

\* C7: every returned row has total_ai_users = claude_users + chatgpt_users,
\* a country missing from a source counting as 0 users there, and
\* total_ai_users > 0.
C7_TotalIsSumAndPositive ==
    ai_result.stage = "returned" =>
        \A r \in ai_result.rows :
            LET inChatGPT == r.iso3 \in (DOMAIN ai_sources.findex) \cap (DOMAIN ai_sources.gdp)
            IN  /\ r.claude_users /= NaN /\ r.chatgpt_users /= NaN /\ r.total_ai_users /= NaN
                /\ r.iso3 \notin DOMAIN ai_sources.claude => r.claude_users[1] = 0
                /\ ~inChatGPT => r.chatgpt_users[1] = 0
                /\ r.total_ai_users[1] * r.claude_users[2] * r.chatgpt_users[2]
                     = (r.claude_users[1] * r.chatgpt_users[2]
                          + r.chatgpt_users[1] * r.claude_users[2]) * r.total_ai_users[2]
                /\ r.total_ai_users[1] > 0 /\ r.total_ai_users[2] > 0

\* Witness of C7: a returned frame with a country known to both sources and
\* a country known to one source only.
C7_Witness ==
    /\ ai_result.stage = "returned"
    /\ \E r \in ai_result.rows : r.claude_users[1] > 0 /\ r.chatgpt_users[1] > 0
    /\ \E r \in ai_result.rows :
          r.iso3 \notin DOMAIN ai_sources.claude /\ r.chatgpt_users[1] > 0

QASources == {"world_bank", "stanford", "anthropic", "itu"}

\* How a data_fetcher call ends: data, a dict with an "error" key, or an
\* exception.
FetchOutcomes == {"data", "error", "raises"}

\* What _call_gemini_api returns: a dict with an "error" key (every HTTP or
\* network failure), or the decoded JSON body of a 200 response: a dict with
\* a usable candidate, without "candidates", with an empty list, with a
\* candidate that lacks content/parts/text, or the JSON value null.
GeminiResults == {"error", "answer", "no_candidates", "empty_candidates",
                  "malformed_candidate", "null"}

\* _detect_sources_from_question: the sources whose keywords occur, by
\* default world_bank and stanford.
detect_sources_from_question(keywords) ==
    IF keywords = {} THEN {"world_bank", "stanford"} ELSE keywords

\* The name appended to sources_used.
SourceName(source) ==
    CASE source = "world_bank" -> "World Bank"
      [] source = "stanford" -> "Stanford AI Index"
      [] source = "anthropic" -> "Anthropic EconomicIndex"
      [] source = "itu" -> "ITU ICT Data"

\* The loop over use_sources: a source counts when its fetch gave data.
SourcesUsed(use_sources, fetch) ==
    {SourceName(src) : src \in {x \in use_sources : fetch[x] = "data"}}

answer_question(call) ==
    LET use_sources == IF call.use_sources_given THEN call.use_sources
                       ELSE detect_sources_from_question(call.keywords)
        sources_used == SourcesUsed(use_sources, call.fetch)
        result == call.gemini
    IN  IF result = "null"
            \* "error" in None
            THEN [stage |-> "raised", exception |-> "TypeError", keys |-> {},
                  sources |-> {}, error |-> TRUE]
        ELSE IF result = "error"
            THEN [stage |-> "returned", exception |-> "",
                  keys |-> {"answer", "sources", "error"},
                  sources |-> sources_used, error |-> TRUE]
        ELSE IF result = "answer"
            THEN [stage |-> "returned", exception |-> "",
                  keys |-> {"answer", "sources", "source_data_available", "error"},
                  sources |-> sources_used, error |-> FALSE]
        \* no candidates, or the KeyError/IndexError of a malformed candidate
        ELSE [stage |-> "returned", exception |-> "",
              keys |-> {"answer", "sources", "error"},
              sources |-> sources_used, error |-> TRUE]

QAInit ==
    /\ qa_call \in [stage : {"asked"},
                    use_sources_given : BOOLEAN,
                    use_sources : SUBSET QASources,
                    keywords : SUBSET QASources,
                    fetch : [QASources -> FetchOutcomes],
                    gemini : GeminiResults]
    /\ ~qa_call.use_sources_given => qa_call.use_sources = {}
    /\ qa_call.use_sources_given => qa_call.keywords = {}
    /\ qa_result = NotStarted

CallAnswerQuestion ==
    /\ qa_result = NotStarted
    /\ qa_result' = answer_question(qa_call)
    /\ UNCHANGED qa_call

InitQA ==
    /\ QAInit /\ GenIdle /\ ViewIdle /\ DashIdle /\ ForecastIdle /\ AIIdle /\ WebIdle /\ ScriptsIdle

NextQA ==
    CallAnswerQuestion /\ UNCHANGED <<genVars, viewVars, dashVars, forecastVars, aiVars, webVars, scriptVars>>

SpecQA == InitQA /\ [][NextQA]_vars

\* C9: on every path answer_question returns a dict that carries the
\* answer, the sources used and a confidence.
C9_AnswerSourcesConfidence ==
    qa_result.stage /= "not started" =>
        /\ qa_result.stage = "returned"
        /\ {"answer", "sources", "confidence"} \subseteq qa_result.keys

(***************************************************************************)
(* skills_gap_navigator/app.py: the four JSON endpoints, next to           *)
(* models/ebm_model.py: export_model_artifacts, which writes the files     *)
(* the endpoints read.                                                     *)
(***************************************************************************)
\* runs of export_model_artifacts
MaxExports == 2

\* The files in the order export_model_artifacts writes them.
VizFiles == <<"feature_importance.json", "shape_functions.json",
              "country_predictions.json", "model_metadata.json">>
Endpoints == <<"/api/feature-importance", "/api/shape-functions",
               "/api/country-predictions", "/api/model-metadata">>

Missing == [state |-> "missing", content |-> 0]
\* open(path, 'w') has truncated the file and json.dump has not finished.
Partial == [state |-> "partial", content |-> 0]
\* The JSON document of export run number `run`.
Complete(run) == [state |-> "complete", content |-> run]

WebInit ==
    /\ viz_files \in [stage : {"idle"}, file : {0}, runs : {0},
                      files : [1 .. Len(VizFiles) -> {Missing, Complete(0)}]]
    /\ response = NotStarted

\* export_model_artifacts starts.
StartExport ==
    /\ viz_files.stage = "idle"
    /\ viz_files.runs < MaxExports
    /\ viz_files' = [viz_files EXCEPT !.stage = "open", !.file = 1, !.runs = @ + 1]
    /\ UNCHANGED response

\* open(output_path / file, 'w')
ExportOpen ==
    /\ viz_files.stage = "open"
    /\ viz_files' = [viz_files EXCEPT !.stage = "dump", !.files[viz_files.file] = Partial]
    /\ UNCHANGED response

\* json.dump(data, f) and the end of the with block.
ExportDump ==
    /\ viz_files.stage = "dump"
    /\ viz_files' = [viz_files EXCEPT
            !.files[viz_files.file] = Complete(viz_files.runs),
            !.stage = IF viz_files.file < Len(VizFiles) THEN "open" ELSE "idle",
            !.file = IF viz_files.file < Len(VizFiles) THEN @ + 1 ELSE 0]
    /\ UNCHANGED response

\* The export ends inside json.dump: an object json cannot serialize, or
\* the process is interrupted.
ExportAborts ==
    /\ viz_files.stage = "dump"
    /\ viz_files' = [viz_files EXCEPT !.stage = "idle", !.file = 0]
    /\ UNCHANGED response

HandlerNoCatch(file) ==
    IF file.state = "complete"
        THEN [status |-> 200, kind |-> "json", body |-> file.content]
    ELSE [status |-> 500, kind |-> "exception", body |-> 0]
\* try: open, json.load, jsonify(data); except FileNotFoundError: 404.  A
\* JSONDecodeError is not caught: Flask answers 500.
Handler(file) ==
    IF file.state = "missing"
        THEN [status |-> 404, kind |-> "error", body |-> 0]
    ELSE IF file.state = "complete"
        THEN [status |-> 200, kind |-> "json", body |-> file.content]
    ELSE [status |-> 500, kind |-> "exception", body |-> 0]

\* GET of one of the four endpoints.  `file` records what the handler found.
Request ==
    \E e \in 1 .. Len(Endpoints) :
        /\ response' = [stage |-> "answered", endpoint |-> Endpoints[e],
                        file |-> viz_files.files[e],
                        answer |-> Handler(viz_files.files[e])]
        /\ UNCHANGED viz_files

InitWeb ==
    /\ WebInit /\ GenIdle /\ ViewIdle /\ DashIdle /\ ForecastIdle /\ AIIdle /\ QAIdle /\ ScriptsIdle

NextWeb ==
    \/ StartExport /\ UNCHANGED <<genVars, viewVars, dashVars, forecastVars, aiVars, qaVars, scriptVars>>
    \/ ExportOpen /\ UNCHANGED <<genVars, viewVars, dashVars, forecastVars, aiVars, qaVars, scriptVars>>
    \/ ExportDump /\ UNCHANGED <<genVars, viewVars, dashVars, forecastVars, aiVars, qaVars, scriptVars>>
    \/ ExportAborts /\ UNCHANGED <<genVars, viewVars, dashVars, forecastVars, aiVars, qaVars, scriptVars>>
    \/ Request /\ UNCHANGED <<genVars, viewVars, dashVars, forecastVars, aiVars, qaVars, scriptVars>>

SpecWeb == InitWeb /\ [][NextWeb]_vars

MaxHiringRate == 2

RiskCountries == {"Kenya", "India"}
RiskCategories == <<"Ready", "Emerging", "High", "Critical">>
RiskBins == <<-1, 25, 50, 75, 100>>

PostingsValues == {NaN, <<0, 1>>, <<4, 1>>}
SkillsValues == {<<0, 1>>, <<2, 1>>}
HiringValues == {NaN} \cup {<<h, 1>> : h \in -1 .. MaxHiringRate}
PublicationValues == {<<0, 1>>, <<3, 1>>}
PopulationValues == {<<1, 1>>}
SpeedValues == {<<0, 1>>, <<50, 1>>}
StrategyValues == {NaN, <<0, 1>>, <<1, 1>>}

FeatureRows ==
    [ai_job_postings_pct : PostingsValues, ai_skills_penetration : SkillsValues,
     ai_hiring_rate : HiringValues, ai_publications : PublicationValues,
     population : PopulationValues, internet_speed : SpeedValues,
     has_ai_strategy : StrategyValues]

\* A row of an earlier year, which tail(1) drops.
EarlierRow ==
    [ai_job_postings_pct |-> <<9, 1>>, ai_skills_penetration |-> <<9, 1>>,
     ai_hiring_rate |-> <<9, 1>>, ai_publications |-> <<9, 1>>,
     population |-> <<1, 1>>, internet_speed |-> <<900, 1>>,
     has_ai_strategy |-> <<1, 1>>]

FloatSub(a, b) == IF a = NaN \/ b = NaN THEN NaN ELSE FSub(a, b)

\* df.groupby('country').tail(1)
Latest(frame) == [c \in DOMAIN frame |-> frame[c][Len(frame[c])]]

\* Series.max(): the greatest value that is not NaN, NaN when there is none.
SeriesMax(series) ==
    LET present == {series[c] : c \in DOMAIN series} \ {NaN}
    IN  IF present = {} THEN NaN
        ELSE CHOOSE m \in present : \A v \in present : FLe(v, m)

\* (1 - value) * weight
RiskFactor(value, weight) == FloatMul(FloatSub(<<1, 1>>, value), <<weight, 1>>)

\* risk_score of country c, the sum of the six factors.
RiskScore(latest, c) ==
    LET postings == [k \in DOMAIN latest |-> fillna(latest[k].ai_job_postings_pct, <<0, 1>>)]
        skills == [k \in DOMAIN latest |-> fillna(latest[k].ai_skills_penetration, <<0, 1>>)]
        pub_norm == [k \in DOMAIN latest |->
                        FloatDiv(fillna(latest[k].ai_publications, <<0, 1>>),
                                 latest[k].population)]
        speed == [k \in DOMAIN latest |-> fillna(latest[k].internet_speed, <<0, 1>>)]
        postingsMax == SeriesMax([k \in DOMAIN latest |-> latest[k].ai_job_postings_pct])
        skillsMax == SeriesMax([k \in DOMAIN latest |-> latest[k].ai_skills_penetration])
        speedMax == SeriesMax([k \in DOMAIN latest |-> latest[k].internet_speed])
        f1 == RiskFactor(FloatDiv(postings[c], postingsMax), 25)
        f2 == RiskFactor(FloatDiv(skills[c], skillsMax), 20)
        f3 == RiskFactor(fillna(latest[c].ai_hiring_rate, <<1, 1>>), 15)
        f4 == RiskFactor(FloatDiv(pub_norm[c], SeriesMax(pub_norm)), 15)
        f5 == RiskFactor(FloatDiv(speed[c], speedMax), 15)
        f6 == RiskFactor(fillna(latest[c].has_ai_strategy, <<0, 1>>), 10)
    IN  FloatAdd(FloatAdd(FloatAdd(FloatAdd(FloatAdd(f1, f2), f3), f4), f5), f6)

\* pd.cut(score, bins): the index of the interval (bins[i], bins[i+1]] that
\* holds the score, 0 (no label, NaN in the result) when the score is NaN or
\* in no interval.
Cut(score, bins) ==
    IF score = NaN THEN 0
    ELSE LET hits == {i \in 1 .. (Len(bins) - 1) :
                         FLt(<<bins[i], 1>>, score) /\ FLe(score, <<bins[i + 1], 1>>)}
         IN  IF hits = {} THEN 0 ELSE CHOOSE i \in hits : TRUE

\* The labels of the two cuts; NaN stays NaN.
RiskCategory(score) ==
    LET i == Cut(score, RiskBins) IN IF i = 0 THEN NaN ELSE RiskCategories[i]
RiskLevel(score) ==
    LET i == Cut(score, RiskBins) IN IF i = 0 THEN NaN ELSE <<i - 1, 1>>

\* The call: astype(int) raises ValueError when a risk_level is NaN.
create_risk_target(frame) ==
    LET latest == Latest(frame)
        score == [c \in DOMAIN latest |-> RiskScore(latest, c)]
    IN  IF \E c \in DOMAIN latest : RiskLevel(score[c]) = NaN
        THEN [stage |-> "raised", exception |-> "ValueError"]
        ELSE [stage |-> "returned",
              rows |-> {[country |-> c, risk_score |-> score[c],
                         risk_category |-> RiskCategory(score[c]),
                         risk_level |-> RiskLevel(score[c])] : c \in DOMAIN latest}]

RiskInit ==
    /\ \E rows \in [RiskCountries -> FeatureRows], earlier \in BOOLEAN :
          risk_df = [c \in RiskCountries |->
                        IF earlier THEN <<EarlierRow, rows[c]>> ELSE <<rows[c]>>]
    /\ risk_result = NotStarted

CallCreateRiskTarget ==
    /\ risk_result = NotStarted
    /\ risk_result' = create_risk_target(risk_df)
    /\ UNCHANGED risk_df

InitRisk == RiskInit /\ DashboardsIdle /\ VulnIdle /\ FilterIdle /\ McpIdle /\ DbIdle

NextRisk ==
    CallCreateRiskTarget /\ UNCHANGED <<dashboardVars, vulnVars, filterVars, mcpVars, dbVars>>

SpecRisk == InitRisk /\ [][NextRisk]_vars

\* C11: create_risk_target returns, and gives every country exactly one row
\* whose risk_score is above -1 and at most 100, whose risk_category is one
\* of Ready, Emerging, High, Critical and whose risk_level is the integer of
\* that category.
C11_EveryCountryHasOneCategory ==
    risk_result /= NotStarted =>
        /\ risk_result.stage = "returned"
        /\ \A c \in RiskCountries :
              /\ Cardinality({r \in risk_result.rows : r.country = c}) = 1
              /\ \A r \in risk_result.rows :
                    r.country = c =>
                        /\ r.risk_score /= NaN
                        /\ FLt(<<-1, 1>>, r.risk_score)
                        /\ FLe(r.risk_score, <<100, 1>>)
                        /\ \E i \in 1 .. 4 :
                              /\ r.risk_category = RiskCategories[i]
                              /\ r.risk_level = <<i - 1, 1>>

\* Where C11 fails: a ratio of 2 puts a score under -1, a ratio of -1 with
\* every other factor at its maximum puts it above 100, and a column whose
\* maximum is 0 makes it NaN.
C11_ScoreBelowBins ==
    risk_result /= NotStarted =>
        \A c \in RiskCountries :
            LET score == RiskScore(Latest(risk_df), c)
            IN  score /= NaN => FLt(<<-1, 1>>, score)
C11_ScoreAboveBins ==
    risk_result /= NotStarted =>
        \A c \in RiskCountries :
            LET score == RiskScore(Latest(risk_df), c)
            IN  score /= NaN => FLe(score, <<100, 1>>)

(***************************************************************************)
(* JobsLens_AI/src/POC/ai_impact_analysis.py: calculate_ai_vulnerability   *)
(*                                                                         *)
(* A row maps the column names of the spreadsheet to a share (a fraction)  *)
(* or to NaN where the cell is empty.                                      *)
(***************************************************************************)
\* empty cells in a row
MaxEmptyCells == 1

\* Column and weight, in tenths.
HighRiskColumns ==
    <<<<" Industry, aged 15-64", 8>>, <<"Manufacturing, aged 15-64", 10>>,
      <<"Commerce, aged 15-64", 10>>, <<" Clerks, aged 15-64", 10>>,
      <<" Machine Operators, aged 15-64", 10>>,
      <<"Transport & Communication, aged 15-64", 8>>>>
MediumRiskColumns ==
    <<<<"Financial and Business Services, aged 15-64", 6>>,
      <<"Construction, aged 15-64", 5>>, <<" Technicians, aged 15-64", 5>>>>
LowRiskColumns ==
    <<<<" Agriculture, aged 15-64", 3>>, <<" Professionals, aged 15-64", 2>>,
      <<" Senior Officials, aged 15-64", 1>>,
      <<" Service and Market Sales, aged 15-64", 4>>>>
ProtectionColumns ==
    <<<<" Post Secondary Education", 5>>, <<"Self-employed, aged 15-64", 3>>,
      <<"Share of informal jobs, aged 15-64", 2>>>>

ColumnsOf(weighted) == {weighted[i][1] : i \in 1 .. Len(weighted)}
ScoredColumns ==
    ColumnsOf(HighRiskColumns) \cup ColumnsOf(MediumRiskColumns)
        \cup ColumnsOf(ProtectionColumns)
ShareValues == {<<0, 1>>, <<50, 1>>}

\* The rows: the low-risk shares are fixed, the call does not use them.
VulnRows ==
    {[col \in ScoredColumns \cup ColumnsOf(LowRiskColumns) |->
         IF col \in empty THEN NaN
         ELSE IF col \in ScoredColumns THEN shares[col] ELSE <<10, 1>>] :
     shares \in [ScoredColumns -> ShareValues],
     empty \in {e \in SUBSET ScoredColumns : Cardinality(e) <= MaxEmptyCells}}

\* row.get(col, 0)
RowGet(row, col) == IF col \in DOMAIN row THEN row[col] ELSE <<0, 1>>

\* x = 0; x += row.get(col, 0) * weight, column after column.
RECURSIVE WeightedSum(_, _, _)
WeightedSum(row, weighted, n) ==
    IF n = 0 THEN <<0, 1>>
    ELSE FloatAdd(WeightedSum(row, weighted, n - 1),
                  FloatMul(RowGet(row, weighted[n][1]), Frac(weighted[n][2], 10)))

\* high_risk * 3 + medium_risk * 2 - protection * 1.5
Vulnerability(row) ==
    LET high_risk == WeightedSum(row, HighRiskColumns, Len(HighRiskColumns))
        medium_risk == WeightedSum(row, MediumRiskColumns, Len(MediumRiskColumns))
        low_risk == WeightedSum(row, LowRiskColumns, Len(LowRiskColumns))
        protection == WeightedSum(row, ProtectionColumns, Len(ProtectionColumns))
    IN  FloatSub(FloatAdd(FloatMul(high_risk, <<3, 1>>), FloatMul(medium_risk, <<2, 1>>)),
                 FloatMul(protection, <<3, 2>>))

\* Python's min(a, b) and max(a, b): b when b < a (b > a), else a; a
\* comparison with NaN is false.
PyMin(a, b) == IF a /= NaN /\ b /= NaN /\ FLt(b, a) THEN b ELSE a
PyMax(a, b) == IF a /= NaN /\ b /= NaN /\ FLt(a, b) THEN b ELSE a

Uncapped(vulnerability) == vulnerability

\* max(0, min(100, vulnerability))
Cap(vulnerability) == PyMax(<<0, 1>>, PyMin(<<100, 1>>, vulnerability))

calculate_ai_vulnerability(row) == Cap(Vulnerability(row))

VulnInit ==
    /\ vuln_row \in VulnRows
    /\ vuln_score = NotStarted

CallCalculateAIVulnerability ==
    /\ vuln_score = NotStarted
    /\ vuln_score' = [stage |-> "returned", score |-> calculate_ai_vulnerability(vuln_row)]
    /\ UNCHANGED vuln_row

InitVuln == VulnInit /\ DashboardsIdle /\ RiskIdle /\ FilterIdle /\ McpIdle /\ DbIdle

NextVuln ==
    CallCalculateAIVulnerability
        /\ UNCHANGED <<dashboardVars, riskVars, filterVars, mcpVars, dbVars>>

SpecVuln == InitVuln /\ [][NextVuln]_vars

\* C12: the returned score is a number between 0 and 100 inclusive for every
\* row; it is 0 when the raw sum is negative and 100 when the raw sum is
\* above 100.
C12_ScoreWithin0And100 ==
    vuln_score /= NotStarted =>
        LET raw == Vulnerability(vuln_row)
            score == vuln_score.score
        IN  /\ score /= NaN
            /\ FLe(<<0, 1>>, score) /\ FLe(score, <<100, 1>>)
            /\ raw /= NaN /\ FLt(raw, <<0, 1>>) => score = <<0, 1>>
            /\ raw /= NaN /\ FLt(<<100, 1>>, raw) => score = <<100, 1>>
            /\ raw /= NaN /\ FLe(<<0, 1>>, raw) /\ FLe(raw, <<100, 1>>) => score = raw

\* Witness of C12: a returned score whose raw sum is negative.
C12_Witness ==
    /\ vuln_score /= NotStarted
    /\ Vulnerability(vuln_row) /= NaN
    /\ FLt(Vulnerability(vuln_row), <<0, 1>>)
    /\ vuln_score.score = <<0, 1>>

(***************************************************************************)
(* JobsLens_AI/src/POC/filter_recent_records.py                            *)
(*                                                                         *)
(* A survey record has a country, a year of survey and the indicator       *)
(* columns, here one: the unemployment rate, NaN where the cell is empty.  *)
(* A country has at most one record per year.                              *)
(***************************************************************************)
\* greatest value of the indicator column
MaxRate == 2

SurveyCountries == {"Kenya", "India"}
SurveyYears == {2019, 2020, 2025, 2026}
RateValues == {NaN} \cup {<<v, 1>> : v \in 1 .. MaxRate}

SurveyFrames ==
    {{[country |-> c, year |-> y, rate |-> cells[<<c, y>>]] :
         <<c, y>> \in {k \in SurveyCountries \X SurveyYears : cells[k] /= <<0, 1>>}} :
     cells \in [SurveyCountries \X SurveyYears -> RateValues \cup {<<0, 1>>}]}

\* df[(df['Year of survey'] >= 2020) & (df['Year of survey'] <= 2025)]
InSurveyWindow(r) == r.year >= 2020 /\ r.year <= 2025

\* sort_values('Year of survey', ascending=False), as a sequence.
RECURSIVE SortedByYearDesc(_)
SortedByYearDesc(rows) ==
    IF rows = {} THEN <<>>
    ELSE LET top == CHOOSE r \in rows : \A q \in rows : q.year <= r.year
         IN  <<top>> \o SortedByYearDesc(rows \ {top})

\* The year of a row of df_filtered is never null (NaN >= 2020 is false);
\* another cell is null when it is NaN.
IsNull(row, col) == col /= "year" /\ row[col] = NaN

\* GroupBy.first() on one column: the first value of the group that is not
\* null, NaN when every value is null.
RECURSIVE FirstNotNull(_, _)
FirstNotNull(group, col) ==
    IF group = <<>> THEN NaN
    ELSE IF ~IsNull(Head(group), col) THEN Head(group)[col]
    ELSE FirstNotNull(Tail(group), col)

FirstOfGroup(group, col) == FirstNotNull(group, col)

\* df_filtered.sort_values(...).groupby('Country Name').first().reset_index()
filter_recent_records(frame) ==
    LET df_filtered == {r \in frame : InSurveyWindow(r)}
    IN  {LET group == SortedByYearDesc({r \in df_filtered : r.country = c})
         IN  [country |-> c,
              year |-> FirstOfGroup(group, "year"),
              rate |-> FirstOfGroup(group, "rate")] :
         c \in {r.country : r \in df_filtered}}

FilterInit ==
    /\ survey_records \in SurveyFrames
    /\ filter_result = NotStarted

RunFilterRecentRecords ==
    /\ filter_result = NotStarted
    /\ filter_result' = [stage |-> "returned", rows |-> filter_recent_records(survey_records)]
    /\ UNCHANGED survey_records

InitFilter == FilterInit /\ DashboardsIdle /\ RiskIdle /\ VulnIdle /\ McpIdle /\ DbIdle

NextFilter ==
    RunFilterRecentRecords /\ UNCHANGED <<dashboardVars, riskVars, vulnVars, mcpVars, dbVars>>

SpecFilter == InitFilter /\ [][NextFilter]_vars

\* The country's record of the greatest year among those of 2020..2025.
MostRecentRecord(c) ==
    CHOOSE r \in survey_records :
        /\ r.country = c /\ InSurveyWindow(r)
        /\ \A q \in survey_records :
              q.country = c /\ InSurveyWindow(q) => q.year <= r.year

\* C13: for every country with a record of 2020..2025 the result holds
\* exactly one row, and that row is the country's most recent such record,
\* field by field, empty fields included; other countries have no row.
C13_MostRecentRecordPerCountry ==
    filter_result /= NotStarted =>
        \A c \in SurveyCountries :
            LET mine == {r \in filter_result.rows : r.country = c}
            IN  IF \E r \in survey_records : r.country = c /\ InSurveyWindow(r)
                THEN mine = {MostRecentRecord(c)}
                ELSE mine = {}

(***************************************************************************)
(* DigitalAIJobsDashboard/mcp_server/server.py: list_tools and call_tool   *)
(*                                                                         *)
(* The server answers requests one after the other.  A call carries a      *)
(* tool name and a dict of arguments, here the set of its keys.            *)
(***************************************************************************)
\* list_tools: name and required arguments of each Tool, in order.
Tools ==
    <<[name |-> "get_anthropic_economic_index", required |-> {}],
      [name |-> "get_stanford_ai_index", required |-> {}],
      [name |-> "get_world_bank_indicator", required |-> {"indicator_code"}],
      [name |-> "get_pwc_ai_jobs_data", required |-> {}],
      [name |-> "get_yale_budget_lab_info", required |-> {}],
      [name |-> "get_mckinsey_generative_ai_info", required |-> {}],
      [name |-> "get_itu_ict_data", required |-> {}],
      [name |-> "list_available_data_sources", required |-> {}]>>

list_tools == {Tools[i].name : i \in 1 .. Len(Tools)}

\* The branches of call_tool, in order: the name compared, the handler
\* awaited, the keys read with arguments[...] and the keys read with
\* arguments.get(..., default).
Branches ==
    <<[name |-> "get_anthropic_economic_index", handler |-> "get_anthropic_economic_index",
       subscript |-> {}, get |-> {"release"}],
      [name |-> "get_stanford_ai_index", handler |-> "get_stanford_ai_index",
       subscript |-> {}, get |-> {"metric_type"}],
      [name |-> "get_world_bank_indicator", handler |-> "get_world_bank_indicator",
       subscript |-> {"indicator_code"}, get |-> {"country_code", "start_year", "end_year"}],
      [name |-> "get_pwc_ai_jobs_data", handler |-> "get_pwc_ai_jobs_data",
       subscript |-> {}, get |-> {"year"}],
      [name |-> "get_yale_budget_lab_info", handler |-> "get_yale_budget_lab_info",
       subscript |-> {}, get |-> {}],
      [name |-> "get_mckinsey_generative_ai_info", handler |-> "get_mckinsey_generative_ai_info",
       subscript |-> {}, get |-> {}],
      [name |-> "get_itu_ict_data", handler |-> "get_itu_ict_data",
       subscript |-> {}, get |-> {"indicator", "country_code"}],
      [name |-> "list_available_data_sources", handler |-> "list_available_data_sources",
       subscript |-> {}, get |-> {}]>>

\* The chain without its last branch.
ElifChainWithoutLast == SubSeq(Branches, 1, Len(Branches) - 1)

ElifChain == Branches

\* if name == ... elif name == ... else raise ValueError; arguments[key]
\* raises KeyError when the key is missing, before the handler is called.
RECURSIVE Dispatch(_, _, _)
Dispatch(chain, name, arguments) ==
    IF chain = <<>> THEN [stage |-> "raised", exception |-> "ValueError", handler |-> "",
                          given |-> {}, defaulted |-> {}]
    ELSE IF name = Head(chain).name
         THEN IF Head(chain).subscript \subseteq arguments
              THEN [stage |-> "dispatched", exception |-> "",
                    handler |-> Head(chain).handler,
                    given |-> (Head(chain).subscript \cup Head(chain).get) \cap arguments,
                    defaulted |-> Head(chain).get \ arguments]
              ELSE [stage |-> "raised", exception |-> "KeyError", handler |-> "",
                    given |-> {}, defaulted |-> {}]
         ELSE Dispatch(Tail(chain), name, arguments)

call_tool(name, arguments) == Dispatch(ElifChain, name, arguments)

RequestNames == list_tools \cup {"get_oecd_data", "list_tools", ""}
ArgumentKeys == {"indicator_code", "country_code", "indicator", "release"}

McpInit ==
    /\ mcp_request = NotStarted
    /\ mcp_response = NotStarted

ListToolsRequest ==
    /\ mcp_request' = [stage |-> "list_tools", name |-> "", arguments |-> {}]
    /\ mcp_response' = [stage |-> "listed", exception |-> "", handler |-> "",
                        given |-> {}, defaulted |-> {}]

CallToolRequest ==
    \E name \in RequestNames, arguments \in SUBSET ArgumentKeys :
        /\ mcp_request' = [stage |-> "call_tool", name |-> name, arguments |-> arguments]
        /\ mcp_response' = call_tool(name, arguments)

InitMcp == McpInit /\ DashboardsIdle /\ RiskIdle /\ VulnIdle /\ FilterIdle /\ DbIdle

NextMcp ==
    \/ ListToolsRequest /\ UNCHANGED <<dashboardVars, riskVars, vulnVars, filterVars, dbVars>>
    \/ CallToolRequest /\ UNCHANGED <<dashboardVars, riskVars, vulnVars, filterVars, dbVars>>

SpecMcp == InitMcp /\ [][NextMcp]_vars

\* The required arguments list_tools advertises for a tool.
RequiredOf(name) ==
    LET i == CHOOSE j \in 1 .. Len(Tools) : Tools[j].name = name IN Tools[i].required

\* C14 as claimed: a call of an advertised tool is dispatched to a handler,
\* and a call of any other name raises ValueError.
C14_AdvertisedToolsAreHandled ==
    mcp_request.stage = "call_tool" =>
        IF mcp_request.name \in list_tools
        THEN mcp_response.stage = "dispatched"
        ELSE mcp_response.stage = "raised" /\ mcp_response.exception = "ValueError"

\* C14 as amended: a call of an advertised tool never raises 'Unknown tool';
\* it is dispatched to the handler of that name when the arguments carry the
\* keys the tool requires, and raises KeyError before any handler is called
\* when they do not.  A call of any other name raises ValueError.
C14_AdvertisedToolsWithRequiredArguments ==
    mcp_request.stage = "call_tool" =>
        IF mcp_request.name \in list_tools
        THEN IF RequiredOf(mcp_request.name) \subseteq mcp_request.arguments
             THEN /\ mcp_response.stage = "dispatched"
                  /\ mcp_response.handler = mcp_request.name
             ELSE /\ mcp_response.stage = "raised"
                  /\ mcp_response.exception = "KeyError"
        ELSE mcp_response.stage = "raised" /\ mcp_response.exception = "ValueError"

\* Witness of C14: the last advertised tool was called and dispatched.
C14_Witness ==
    /\ mcp_request.stage = "call_tool"
    /\ mcp_request.name = Tools[Len(Tools)].name
    /\ mcp_response.stage = "dispatched"
    /\ mcp_response.handler = "list_available_data_sources"

(***************************************************************************)
(* DigitalAIJobsDashboard/app.py: check_database_exists and the start of   *)
(* main                                                                    *)
(*                                                                         *)
(* Streamlit runs main again on every interaction.  The database is in     *)
(* one state during a run and may be in another at the next run.           *)
(***************************************************************************)
\* rows of digital_jobs
MaxTableRows == 3
\* runs of main
MaxRuns == 3

\* data/digital_jobs.duckdb: no file, a file DuckDB cannot open, a database
\* without the table, a database whose table holds `rows` rows.
DbStates ==
    {[file |-> "missing", table |-> "missing", rows |-> 0],
     [file |-> "unreadable", table |-> "missing", rows |-> 0],
     [file |-> "database", table |-> "missing", rows |-> 0]}
        \cup {[file |-> "database", table |-> "present", rows |-> n] : n \in 0 .. MaxTableRows}

\* The queries main executes before the sidebar is built.
StartupQueries ==
    <<"get_available_countries", "get_available_industries",
      "get_available_skills", "get_year_range">>

RunStart(n) ==
    [stage |-> "started", runs |-> n, exists |-> "unknown", result |-> "none",
     queries |-> <<>>, shown |-> "title"]

\* count >= 0
HasRowsOrNone(count) == count >= 0

\* count > 0
HasRows(count) == count > 0

DbInit ==
    /\ db_state \in DbStates
    /\ app_run = RunStart(1)

\* if not DB_PATH.exists(): return False
CheckPathExists ==
    /\ app_run.stage = "started"
    /\ app_run' = IF db_state.file = "missing"
                  THEN [app_run EXCEPT !.stage = "checked", !.exists = FALSE, !.result = FALSE]
                  ELSE [app_run EXCEPT !.stage = "connecting", !.exists = TRUE]
    /\ UNCHANGED db_state

\* duckdb.connect(..., read_only=True); an exception returns False.
ConnectReadOnly ==
    /\ app_run.stage = "connecting"
    /\ app_run' = IF db_state.file = "unreadable"
                  THEN [app_run EXCEPT !.stage = "checked", !.result = FALSE]
                  ELSE [app_run EXCEPT !.stage = "counting"]
    /\ UNCHANGED db_state

\* SELECT COUNT(*) FROM digital_jobs; close; return count > 0.  An exception
\* (no such table) returns False.
CountRows ==
    /\ app_run.stage = "counting"
    /\ app_run' = IF db_state.table = "missing"
                  THEN [app_run EXCEPT !.stage = "checked", !.result = FALSE]
                  ELSE [app_run EXCEPT !.stage = "checked",
                                       !.result = HasRows(db_state.rows)]
    /\ UNCHANGED db_state

\* if not check_database_exists(): st.error(...); st.code(...); return
ShowDatabaseError ==
    /\ app_run.stage = "checked"
    /\ app_run.result = FALSE
    /\ app_run' = [app_run EXCEPT !.stage = "stopped", !.shown = "run load_data.py"]
    /\ UNCHANGED db_state

\* One of the queries of main: it fails on a database without rows to read.
ExecuteQuery ==
    /\ app_run.stage \in {"checked", "querying"}
    /\ app_run.result = TRUE
    /\ Len(app_run.queries) < Len(StartupQueries)
    /\ LET q == StartupQueries[Len(app_run.queries) + 1]
       IN  app_run' = [app_run EXCEPT
               !.queries = Append(@, q),
               !.stage = IF db_state.file /= "database" \/ db_state.table /= "present"
                         THEN "raised"
                         ELSE IF Len(app_run.queries) + 1 = Len(StartupQueries)
                         THEN "rendered" ELSE "querying",
               !.shown = IF Len(app_run.queries) + 1 = Len(StartupQueries)
                         THEN "dashboard" ELSE @]
    /\ UNCHANGED db_state

\* The next run of main, on the database as it is by then.
Rerun ==
    /\ app_run.stage \in {"stopped", "rendered", "raised"}
    /\ app_run.runs < MaxRuns
    /\ db_state' \in DbStates
    /\ app_run' = RunStart(app_run.runs + 1)

InitDb == DbInit /\ DashboardsIdle /\ RiskIdle /\ VulnIdle /\ FilterIdle /\ McpIdle

NextDb ==
    \/ CheckPathExists /\ UNCHANGED <<dashboardVars, riskVars, vulnVars, filterVars, mcpVars>>
    \/ ConnectReadOnly /\ UNCHANGED <<dashboardVars, riskVars, vulnVars, filterVars, mcpVars>>
    \/ CountRows /\ UNCHANGED <<dashboardVars, riskVars, vulnVars, filterVars, mcpVars>>
    \/ ShowDatabaseError /\ UNCHANGED <<dashboardVars, riskVars, vulnVars, filterVars, mcpVars>>
    \/ ExecuteQuery /\ UNCHANGED <<dashboardVars, riskVars, vulnVars, filterVars, mcpVars>>
    \/ Rerun /\ UNCHANGED <<dashboardVars, riskVars, vulnVars, filterVars, mcpVars>>

SpecDb == InitDb /\ [][NextDb]_vars

Populated(db) == db.file = "database" /\ db.table = "present" /\ db.rows >= 1

\* C15: in every state of the database the check returns a boolean and
\* never raises; main executes a data query only when the file exists and
\* digital_jobs holds at least one row, and in every other state it shows
\* the 'run load_data.py' error and stops without a query.
C15_QueriesOnlyPopulatedDatabase ==
    /\ app_run.stage /= "raised"
    /\ app_run.stage \in {"checked", "querying", "rendered", "stopped"} =>
          app_run.result = Populated(db_state)
    /\ app_run.queries /= <<>> => Populated(db_state)
    /\ app_run.stage = "stopped" =>
          /\ ~Populated(db_state)
          /\ app_run.shown = "run load_data.py"
          /\ app_run.queries = <<>>
    /\ app_run.stage = "rendered" => Populated(db_state) /\ app_run.queries = StartupQueries

\* Witness of C15: the table exists and is empty, and main showed the error
\* and stopped.
C15_Witness ==
    /\ db_state.file = "database" /\ db_state.table = "present" /\ db_state.rows = 0
    /\ app_run.stage = "stopped"
    /\ app_run.shown = "run load_data.py"
====
